---- MODULE Spec2Model ----
(***************************************************************************)
(* Carbon emission prediction service (backend/app).                       *)
(*                                                                         *)
(*   predictor.py  CarbonEmissionPredictor: load_model, predict_single,    *)
(*                 predict_batch, is_loaded, and the module-level instance *)
(*   models.py     PredictionRequest / BatchPredictionRequest validation   *)
(*   main.py       /health, /predict, /predict/batch handlers              *)
(*                                                                         *)
(* Text is a sequence of one-character strings, so that str.strip() is     *)
(* computed.  A quantity in kg or in tons is an integer number of          *)
(* millionths (10.0 kg is 10000000, 0.03575 t is 35750): every emission    *)
(* the artifacts below return has at most three decimals, so x / 1000 is   *)
(* exact.  round(x, n) of a float that lies exactly halfway between two    *)
(* n-decimal values depends on the binary double behind the decimal        *)
(* (round(0.03575, 4) is 0.0357, round(0.00525, 4) is 0.0053), so a tie    *)
(* is a choice between both neighbours.                                    *)
(***************************************************************************)
EXTENDS Integers, Sequences, FiniteSets, TLC

VARIABLES
    phase,   \* the service: "importing" | "serving" | "crashed";
             \* the class alone: "constructing", then how the last load_model() ended
    model,   \* CarbonEmissionPredictor.model: None or the loaded artifact
    resp,    \* the response to the HTTP request in hand, Idle between requests
    ret      \* the result of the gateway method call in hand, Idle between calls

vars == <<phase, model, resp, ret>>

-----------------------------------------------------------------------------
(* Bounds                                                                  *)

\* Longest batch whose descriptors are enumerated freely.
MaxLen == 3

-----------------------------------------------------------------------------
(* Program constants                                                       *)

MIN_BATCH == 1
MAX_BATCH == 100
KG_PER_TON == 1000
HTTP_200_OK == "200"
HTTP_422_UNPROCESSABLE_ENTITY == "422"
HTTP_500_INTERNAL_SERVER_ERROR == "500"
\* round(x, 2) and round(x, 4) as quanta of the millionth scale
KG_QUANTUM == 10000
TONS_QUANTUM == 100

API_VERSION == "1.0.0"
None == "None"

-----------------------------------------------------------------------------
(* Text                                                                    *)

SP == " "
WH == <<"W", "H">>
Truck == <<"t", "r", "u", "c", "k">>
Van == <<"v", "a", "n">>
Bike == <<"b", "i", "k", "e">>
Tank == <<"t", "a", "n", "k">>
Highway == <<"h", "w", "y">>
Urban == <<"u", "r", "b">>
Empty == <<>>
Blank == <<SP, SP>>

RECURSIVE lstrip(_)
lstrip(s) ==
    IF s = <<>> THEN <<>>
    ELSE IF Head(s) = SP THEN lstrip(Tail(s)) ELSE s

RECURSIVE rstrip(_)
rstrip(s) ==
    IF s = <<>> THEN <<>>
    ELSE IF s[Len(s)] = SP THEN rstrip(SubSeq(s, 1, Len(s) - 1)) ELSE s

\* str.strip()
strip(s) == rstrip(lstrip(s))

-----------------------------------------------------------------------------
(* models.py: request validation (pydantic).  A Field constraint is        *)
(* checked on the value as received; a field_validator (mode "after")      *)
(* runs after it and its return value becomes the field.                   *)

clean_strings(v) == strip(v)

validate_origin(v) == strip(v)

\* PredictionRequest(**raw): ok with the validated model, or a validation error
PredictionRequest(raw) ==
    IF Len(raw.origin_facility) >= 1 /\ raw.distance_km > 0
    THEN [ok |-> TRUE,
          value |-> [origin_facility |-> validate_origin(raw.origin_facility),
                     vehicle_type |-> clean_strings(raw.vehicle_type),
                     route_type |-> clean_strings(raw.route_type),
                     distance_km |-> raw.distance_km]]
    ELSE [ok |-> FALSE, value |-> raw]

\* BatchPredictionRequest(predictions=raws)
BatchPredictionRequest(raws) ==
    IF /\ Len(raws) >= MIN_BATCH
       /\ Len(raws) <= MAX_BATCH
       /\ \A i \in 1..Len(raws) : PredictionRequest(raws[i]).ok
    THEN [ok |-> TRUE,
          predictions |-> [i \in 1..Len(raws) |-> PredictionRequest(raws[i]).value]]
    ELSE [ok |-> FALSE, predictions |-> <<>>]

-----------------------------------------------------------------------------
(* The model artifact: whatever joblib.load returns, used only through     *)
(* predict(frame).  A frame is its column names and its rows, each row in  *)
(* column order.                                                           *)

\* column order the artifact was fitted with
FEATURE_ORDER == <<"origin_facility", "vehicle_type", "route_type", "distance_km">>

\* Artifacts a model file may hold.  "regressor" predicts one value per row
\* from that row alone; "truncating" returns no value for the last row;
\* "padding" returns one value too many.
Artifacts == {"regressor", "truncating", "padding"}

KnownOrigins == {WH}
KnownVehicles == {Truck, Van, Bike}
KnownRoutes == {Highway, Urban}

\* millionths of a kg per km
Rate(vehicle) ==
    IF vehicle = Truck THEN 100000
    ELSE IF vehicle = Van THEN 205000
    ELSE 103000

Surcharge(route) == IF route = Urban THEN 2000 ELSE 0

\* a fitted pipeline rejects a category it has not seen
RowOk(row) ==
    /\ row[1] \in KnownOrigins
    /\ row[2] \in KnownVehicles
    /\ row[3] \in KnownRoutes

RowValue(row) == (Rate(row[2]) + Surcharge(row[3])) * row[4]

\* artifact.predict(frame): raises, or returns an array of values
ArtifactPredict(artifact, frame) ==
    IF frame.columns # FEATURE_ORDER
    THEN [raised |-> TRUE, error |-> "feature names must match those seen in fit",
          values |-> <<>>]
    ELSE IF \E i \in 1..Len(frame.rows) : ~RowOk(frame.rows[i])
    THEN [raised |-> TRUE, error |-> "found unknown categories", values |-> <<>>]
    ELSE LET all == [i \in 1..Len(frame.rows) |-> RowValue(frame.rows[i])]
         IN  [raised |-> FALSE, error |-> "",
              values |-> CASE artifact = "regressor" -> all
                           [] artifact = "truncating" -> SubSeq(all, 1, Len(all) - 1)
                           [] artifact = "padding" -> Append(all, 0)]

-----------------------------------------------------------------------------
(* predictor.py: CarbonEmissionPredictor.  A method's result is a record:  *)
(* raised/error say whether it raised and with what text, calls is the     *)
(* number of artifact.predict invocations the call made.                   *)

\* joblib.load(self.model_path): the artifact in the file, or an exception
LoadOutcomes ==
    [ok : {TRUE}, artifact : Artifacts, error : {""}]
        \cup [ok : {FALSE}, artifact : {None}, error : {"No such file or directory"}]

\* self.model after load_model(), given what joblib.load did
load_model_clearing(m, outcome) == IF outcome.ok THEN outcome.artifact ELSE None

load_model(m, outcome) == IF outcome.ok THEN outcome.artifact ELSE m

\* what load_model() raises
load_model_result(outcome) ==
    IF outcome.ok
    THEN [op |-> "load_model", raised |-> FALSE, error |-> "", value |-> <<>>,
          calls |-> 0]
    ELSE [op |-> "load_model", raised |-> TRUE, error |-> "Could not load model",
          value |-> <<>>, calls |-> 0]

is_loaded(m) == m # None

\* pd.DataFrame({"origin_facility": [..], "vehicle_type": [..], ...})
single_frame(request) ==
    [columns |-> <<"origin_facility", "vehicle_type", "route_type", "distance_km">>,
     rows |-> << <<request.origin_facility, request.vehicle_type,
                   request.route_type, request.distance_km>> >>]

\* pd.DataFrame([{"origin_facility": .., ...} for req in requests]); columns
\* follow the keys of the dicts, and an empty list gives a frame with no columns
batch_frame_reversed(requests) ==
    [columns |-> IF requests = <<>> THEN <<>>
                 ELSE <<"origin_facility", "vehicle_type", "route_type", "distance_km">>,
     rows |-> [i \in 1..Len(requests) |->
                 LET req == requests[Len(requests) + 1 - i]
                 IN  <<req.origin_facility, req.vehicle_type,
                       req.route_type, req.distance_km>>]]

batch_frame(requests) ==
    [columns |-> IF requests = <<>> THEN <<>>
                 ELSE <<"origin_facility", "vehicle_type", "route_type", "distance_km">>,
     rows |-> [i \in 1..Len(requests) |->
                 LET req == requests[i]
                 IN  <<req.origin_facility, req.vehicle_type,
                       req.route_type, req.distance_km>>]]

\* a gateway without the "Model not loaded" guard: None has no predict()
predict_single_unguarded(m, request) ==
    IF m = None
    THEN [op |-> "predict_single", raised |-> TRUE,
          error |-> "'NoneType' object has no attribute 'predict'",
          value |-> <<>>, calls |-> 0]
    ELSE LET out == ArtifactPredict(m, single_frame(request))
         IN  IF out.raised
             THEN [op |-> "predict_single", raised |-> TRUE, error |-> out.error,
                   value |-> <<>>, calls |-> 1]
             ELSE IF out.values = <<>>
             THEN [op |-> "predict_single", raised |-> TRUE,
                   error |-> "index 0 is out of bounds", value |-> <<>>, calls |-> 1]
             ELSE [op |-> "predict_single", raised |-> FALSE, error |-> "",
                   value |-> <<out.values[1]>>, calls |-> 1]

\* value is <<x>> when the call returns x, <<>> when it raises
predict_single(m, request) ==
    IF m = None
    THEN [op |-> "predict_single", raised |-> TRUE, error |-> "Model not loaded",
          value |-> <<>>, calls |-> 0]
    ELSE LET out == ArtifactPredict(m, single_frame(request))
         IN  IF out.raised
             THEN [op |-> "predict_single", raised |-> TRUE, error |-> out.error,
                   value |-> <<>>, calls |-> 1]
             ELSE IF out.values = <<>>
             THEN [op |-> "predict_single", raised |-> TRUE,
                   error |-> "index 0 is out of bounds", value |-> <<>>, calls |-> 1]
             ELSE [op |-> "predict_single", raised |-> FALSE, error |-> "",
                   value |-> <<out.values[1]>>, calls |-> 1]

\* a gateway that asks the artifact once per row
RECURSIVE predict_batch_per_row(_, _)
predict_batch_per_row(m, requests) ==
    IF m = None
    THEN [op |-> "predict_batch", raised |-> TRUE, error |-> "Model not loaded",
          value |-> <<>>, calls |-> 0]
    ELSE IF requests = <<>>
    THEN [op |-> "predict_batch", raised |-> FALSE, error |-> "", value |-> <<>>,
          calls |-> 0]
    ELSE LET one == predict_single(m, Head(requests))
             rest == predict_batch_per_row(m, Tail(requests))
         IN  IF one.raised
             THEN [op |-> "predict_batch", raised |-> TRUE, error |-> one.error,
                   value |-> <<>>, calls |-> 1]
             ELSE IF rest.raised
             THEN [op |-> "predict_batch", raised |-> TRUE, error |-> rest.error,
                   value |-> <<>>, calls |-> 1 + rest.calls]
             ELSE [op |-> "predict_batch", raised |-> FALSE, error |-> "",
                   value |-> <<one.value[1]>> \o rest.value,
                   calls |-> 1 + rest.calls]

\* value is the returned list
predict_batch(m, requests) ==
    IF m = None
    THEN [op |-> "predict_batch", raised |-> TRUE, error |-> "Model not loaded",
          value |-> <<>>, calls |-> 0]
    ELSE LET out == ArtifactPredict(m, batch_frame(requests))
         IN  IF out.raised
             THEN [op |-> "predict_batch", raised |-> TRUE, error |-> out.error,
                   value |-> <<>>, calls |-> 1]
             ELSE [op |-> "predict_batch", raised |-> FALSE, error |-> "",
                   value |-> out.values, calls |-> 1]

-----------------------------------------------------------------------------
(* main.py: the handlers.  A handler's result is the set of responses it   *)
(* may give (more than one only where round() meets a tie).                *)

\* round(x, ndigits), q the quantum of ndigits on the millionth scale
round(x, q) ==
    LET lo == (x \div q) * q
        r == x - lo
    IN  IF 2 * r < q THEN {lo}
        ELSE IF 2 * r > q THEN {lo + q}
        ELSE {lo, lo + q}

Min(a, b) == IF a <= b THEN a ELSE b

RECURSIVE Sum(_, _)
Sum(s, n) == IF n = 0 THEN 0 ELSE Sum(s, n - 1) + s[n]

\* the connection of a request made while no process is listening
Refused(endpoint, raw) ==
    [op |-> "", endpoint |-> endpoint, status |-> "refused", handled |-> FALSE, raw |-> raw,
     request |-> <<>>, emissions |-> <<>>, calls |-> 0, body |-> <<>>, log |-> ""]

\* FastAPI's answer when the request body fails validation: the handler is not run
Rejected(endpoint, raw) ==
    [op |-> "", endpoint |-> endpoint, status |-> HTTP_422_UNPROCESSABLE_ENTITY,
     handled |-> FALSE, raw |-> raw, request |-> <<>>, emissions |-> <<>>,
     calls |-> 0, body |-> <<>>, log |-> ""]

health_check_inverted(m) ==
    [status |-> IF is_loaded(m) THEN "unhealthy" ELSE "healthy",
     model_loaded |-> is_loaded(m), version |-> API_VERSION]

health_check(m) ==
    [status |-> IF is_loaded(m) THEN "healthy" ELSE "unhealthy",
     model_loaded |-> is_loaded(m), version |-> API_VERSION]

\* PredictionResponse(...) for one route
PredictionResponses(request, emission_kg) ==
    LET emission_tons == emission_kg \div KG_PER_TON
    IN  {[predicted_emission_kgco2e |-> kg, predicted_emission_tons |-> tons,
          input_data |-> request, model_version |-> API_VERSION] :
            kg \in round(emission_kg, KG_QUANTUM),
            tons \in round(emission_tons, TONS_QUANTUM)}

\* HTTPException(500, detail=f"<prefix>: {str(e)}"), after logger.error(f"...: {e}")
ServerError(prefix, e) ==
    [status |-> HTTP_500_INTERNAL_SERVER_ERROR,
     body |-> [detail |-> <<prefix, e>>], log |-> e, emissions |-> <<>>]

predict_emission(m, request) ==
    LET r == predict_single(m, request)
    IN  IF r.raised
        THEN {ServerError("Prediction failed: ", r.error) @@ [calls |-> r.calls]}
        ELSE {[status |-> HTTP_200_OK, body |-> b, log |-> "", calls |-> r.calls,
               emissions |-> r.value] :
                b \in PredictionResponses(request, r.value[1])}

\* the results list after the first n pairs of zip(request.predictions, emissions_kg)
RECURSIVE Results(_, _, _)
Results(predictions, emissions_kg, n) ==
    IF n = 0 THEN {<<>>}
    ELSE {Append(rs, b) :
            rs \in Results(predictions, emissions_kg, n - 1),
            b \in PredictionResponses(predictions[n], emissions_kg[n])}

\* the sum of the results' rounded tons
RECURSIVE SumTons(_, _)
SumTons(results, n) ==
    IF n = 0 THEN 0 ELSE SumTons(results, n - 1) + results[n].predicted_emission_tons

\* a handler that adds up the per-item tons
predict_emissions_batch_summing_tons(m, predictions) ==
    LET r == predict_batch(m, predictions)
        n == Min(Len(predictions), Len(r.value))
        total_emission_kg == Sum(r.value, n)
    IN  IF r.raised
        THEN {ServerError("Batch prediction failed: ", r.error) @@ [calls |-> r.calls]}
        ELSE {[status |-> HTTP_200_OK, log |-> "", calls |-> r.calls,
               emissions |-> SubSeq(r.value, 1, n),
               body |-> [results |-> results, total_count |-> Len(results),
                         total_emission_kgco2e |-> kg,
                         total_emission_tons |-> SumTons(results, n)]] :
                results \in Results(predictions, r.value, n),
                kg \in round(total_emission_kg, KG_QUANTUM)}

predict_emissions_batch(m, predictions) ==
    LET r == predict_batch(m, predictions)
        n == Min(Len(predictions), Len(r.value))
        total_emission_kg == Sum(r.value, n)
        total_emission_tons == total_emission_kg \div KG_PER_TON
    IN  IF r.raised
        THEN {ServerError("Batch prediction failed: ", r.error) @@ [calls |-> r.calls]}
        ELSE {[status |-> HTTP_200_OK, log |-> "", calls |-> r.calls,
               emissions |-> SubSeq(r.value, 1, n),
               body |-> [results |-> results, total_count |-> Len(results),
                         total_emission_kgco2e |-> kg,
                         total_emission_tons |-> tons]] :
                results \in Results(predictions, r.value, n),
                kg \in round(total_emission_kg, KG_QUANTUM),
                tons \in round(total_emission_tons, TONS_QUANTUM)}

\* what the client of a handled request gets
Handled(endpoint, raw, request, answer) ==
    [op |-> "", endpoint |-> endpoint, handled |-> TRUE, raw |-> raw, request |-> request] @@ answer

-----------------------------------------------------------------------------
(* Inputs                                                                  *)

Raw(o, v, r, d) ==
    [origin_facility |-> o, vehicle_type |-> v, route_type |-> r, distance_km |-> d]

\* request bodies a client may send
RawRequests ==
    { Raw(WH, Truck, Highway, 100),                       \* 10.0 kg
      Raw(WH, Van, Highway, 100),                         \* 20.5 kg
      Raw(WH, Bike, Urban, 50),                           \* 5.25 kg
      Raw(WH, Van, Urban, 15),                            \* 3.105 kg
      Raw(<<SP>> \o WH, Truck \o <<SP>>, Highway, 100),   \* padded text
      Raw(WH, Tank, Highway, 80),                         \* a vehicle the artifact never saw
      Raw(Blank, Empty, Empty, 10),                       \* nothing but whitespace
      Raw(Empty, Truck, Highway, 100),                    \* no origin at all
      Raw(WH, Truck, Highway, 0) }                        \* no distance

RECURSIVE SeqsUpTo(_, _)
SeqsUpTo(S, n) ==
    IF n = 0 THEN {<<>>}
    ELSE LET shorter == SeqsUpTo(S, n - 1)
         IN  shorter \cup {Append(s, x) : s \in {t \in shorter : Len(t) = n - 1}, x \in S}

\* batches a client may send: every short one, and one at and one past the limit
RawBatches ==
    SeqsUpTo(RawRequests, MaxLen)
        \cup {[i \in 1..n |-> Raw(WH, Truck, Highway, 100)] : n \in {MAX_BATCH, MAX_BATCH + 1}}

\* PredictionRequest objects: what validation lets through
Requests == {PredictionRequest(raw).value : raw \in {x \in RawRequests : PredictionRequest(x).ok}}

Idle == [op |-> "", endpoint |-> ""]

-----------------------------------------------------------------------------
(* The service: importing app.main constructs the module-level predictor,  *)
(* then requests arrive.  The handlers are coroutines that never await, so *)
(* the event loop runs each to its response before it takes the next.      *)

Init ==
    /\ phase = "importing"
    /\ model = None
    /\ resp = Idle
    /\ ret = Idle

\* `predictor = CarbonEmissionPredictor()` swallowing the failure of the load
import_app_swallowing(outcome) == "serving"

\* `predictor = CarbonEmissionPredictor()` at import: __init__ calls load_model(),
\* whose RuntimeError ends the import, and with it the process
import_app(outcome) == IF load_model_result(outcome).raised THEN "crashed" ELSE "serving"

Startup ==
    /\ phase = "importing"
    /\ resp = Idle
    /\ \E outcome \in LoadOutcomes :
          /\ model' = load_model(None, outcome)
          /\ phase' = import_app(outcome)
    /\ UNCHANGED <<resp, ret>>

\* GET /health
Health ==
    /\ resp = Idle
    /\ resp' = IF phase = "serving"
               THEN Handled("/health", <<>>, <<>>,
                            [status |-> HTTP_200_OK, body |-> health_check(model),
                             log |-> "", calls |-> 0, emissions |-> <<>>])
               ELSE Refused("/health", <<>>)
    /\ UNCHANGED <<phase, model, ret>>

\* POST /predict
Predict ==
    /\ resp = Idle
    /\ \E raw \in RawRequests :
          LET request == PredictionRequest(raw)
          IN  IF phase # "serving" THEN resp' = Refused("/predict", raw)
              ELSE IF ~request.ok THEN resp' = Rejected("/predict", raw)
              ELSE \E answer \in predict_emission(model, request.value) :
                      resp' = Handled("/predict", raw, request.value, answer)
    /\ UNCHANGED <<phase, model, ret>>

\* POST /predict/batch
PredictBatch ==
    /\ resp = Idle
    /\ \E raws \in RawBatches :
          LET request == BatchPredictionRequest(raws)
          IN  IF phase # "serving" THEN resp' = Refused("/predict/batch", raws)
              ELSE IF ~request.ok THEN resp' = Rejected("/predict/batch", raws)
              ELSE \E answer \in predict_emissions_batch(model, request.predictions) :
                      resp' = Handled("/predict/batch", raws, request.predictions, answer)
    /\ UNCHANGED <<phase, model, ret>>

\* the response is sent
Respond ==
    /\ resp # Idle
    /\ resp' = Idle
    /\ UNCHANGED <<phase, model, ret>>

Next == Startup \/ Health \/ Predict \/ PredictBatch \/ Respond

Spec == Init /\ [][Next]_vars

-----------------------------------------------------------------------------
(* The gateway class alone: one CarbonEmissionPredictor whose methods are  *)
(* called one after the other in any order.  It starts as __init__ leaves  *)
(* it before its call of load_model(), which is therefore the first call;  *)
(* the instance stays in reach when that call raises.                      *)

GatewayInit ==
    /\ phase = "constructing"
    /\ model = None
    /\ resp = Idle
    /\ ret = Idle

Call(args, out) ==
    [op |-> out.op, endpoint |-> "", args |-> args, raised |-> out.raised,
     error |-> out.error, value |-> out.value, calls |-> out.calls]

CallLoadModel ==
    /\ ret = Idle
    /\ \E outcome \in LoadOutcomes :
          /\ model' = load_model(model, outcome)
          /\ ret' = Call(<<>>, load_model_result(outcome))
          /\ phase' = IF outcome.ok THEN "loaded" ELSE "load_failed"
    /\ UNCHANGED resp

CallIsLoaded ==
    /\ ret = Idle
    /\ phase # "constructing"
    /\ ret' = Call(<<>>, [op |-> "is_loaded", raised |-> FALSE, error |-> "",
                          value |-> <<is_loaded(model)>>, calls |-> 0])
    /\ UNCHANGED <<phase, model, resp>>

CallPredictSingle ==
    /\ ret = Idle
    /\ phase # "constructing"
    /\ \E request \in Requests : ret' = Call(<<request>>, predict_single(model, request))
    /\ UNCHANGED <<phase, model, resp>>

CallPredictBatch ==
    /\ ret = Idle
    /\ phase # "constructing"
    /\ \E requests \in SeqsUpTo(Requests, MaxLen) :
          ret' = Call(requests, predict_batch(model, requests))
    /\ UNCHANGED <<phase, model, resp>>

\* the call returns or raises to its caller
Return ==
    /\ ret # Idle
    /\ ret' = Idle
    /\ UNCHANGED <<phase, model, resp>>

GatewayNext ==
    CallLoadModel \/ CallIsLoaded \/ CallPredictSingle \/ CallPredictBatch \/ Return

GatewaySpec == GatewayInit /\ [][GatewayNext]_vars

-----------------------------------------------------------------------------
(* Properties                                                              *)

IsPrediction(r) == r.op \in {"predict_single", "predict_batch"}

BatchAnswered == resp.endpoint = "/predict/batch" /\ resp.handled
BatchSucceeded == BatchAnswered /\ resp.status = HTTP_200_OK

\* predict_batch(D) agrees with predict_single on every row of D
AgreesWithSingle(m, D, batch) ==
    IF batch.raised
    THEN \E i \in 1..Len(D) : predict_single(m, D[i]).raised
    ELSE /\ Len(batch.value) = Len(D)
         /\ \A i \in 1..Len(D) :
               LET one == predict_single(m, D[i])
               IN  ~one.raised /\ batch.value[i] = one.value[1]

C2_OneInvocationPerBatch ==
    BatchAnswered => resp.calls = 1

C2_Witness ==
    /\ BatchSucceeded
    /\ Len(resp.request) = 3
    /\ Len(resp.body.results) = 3
    /\ resp.calls = 1

C4_ReadyIsOneWay ==
    [][/\ is_loaded(model) => is_loaded(model')
       /\ (IsPrediction(ret') \/ ret'.op = "is_loaded") => model' = model]_vars

C4_Witness ==
    /\ phase = "load_failed"
    /\ ret.op = "load_model"
    /\ ret.raised
    /\ is_loaded(model)

\* C5: the service answers requests only with an artifact loaded: it is serving only
\* while an artifact is held, a /predict or /predict/batch success is given only
\* then, and once the load has failed every request is refused.
C5_NoTrafficWithoutArtifact ==
    /\ phase = "serving" => model # None
    /\ (resp # Idle /\ resp.handled) => (phase = "serving" /\ model # None)
    /\ (resp # Idle /\ resp.status = HTTP_200_OK) => model # None
    /\ (resp # Idle /\ phase = "crashed") => (model = None /\ resp.status = "refused")

C5_Witness ==
    /\ phase = "crashed"
    /\ model = None
    /\ resp.endpoint = "/predict"
    /\ resp.status = "refused"

HealthAnswered == resp.endpoint = "/health" /\ resp.handled

C7_ResultsAlignedWithInput ==
    BatchSucceeded
        => /\ Len(resp.body.results) = Len(resp.request)
           /\ \A i \in 1..Len(resp.body.results) :
                 resp.body.results[i].input_data = resp.request[i]
           /\ resp.body.total_count = Len(resp.request)

Scenario == <<10000000, 20500000, 5250000>>

\* C8 as stated: the response's total in tons is its total in kg divided by 1000;
\* for per-item kg [10.0, 20.5, 5.25] the response reports 35.75 kg, 0.03575 t and
\* a count of 3.
C8_TotalTonsIsTotalKgOver1000_Original ==
    BatchSucceeded
        => /\ resp.body.total_emission_tons * KG_PER_TON = resp.body.total_emission_kgco2e
           /\ resp.emissions = Scenario
                 => /\ resp.body.total_emission_kgco2e = 35750000
                    /\ resp.body.total_emission_tons = 35750
                    /\ resp.body.total_count = 3

Abs(x) == IF x < 0 THEN -x ELSE x

\* x is v rounded to a multiple of q
IsRounded(x, v, q) == x % q = 0 /\ 2 * Abs(x - v) <= q

\* C8 amended: the response's total in kg is the sum of the per-item unrounded kg
\* rounded to 2 decimals, and its total in tons is that unrounded sum divided by
\* 1000, rounded to 4 decimals (not the sum of the per-item tons); for per-item
\* kg [10.0, 20.5, 5.25] the response reports 35.75 kg, 0.03575 t rounded to 4
\* decimals (0.0357 or 0.0358) and a count of 3.  (total_kg % KG_PER_TON = 0 says
\* that the division is exact on the millionth scale.)
C8_TotalTonsIsTotalKgOver1000 ==
    BatchSucceeded
        => LET total_kg == Sum(resp.emissions, Len(resp.emissions))
           IN  /\ IsRounded(resp.body.total_emission_kgco2e, total_kg, KG_QUANTUM)
               /\ total_kg % KG_PER_TON = 0
               /\ IsRounded(resp.body.total_emission_tons, total_kg \div KG_PER_TON,
                            TONS_QUANTUM)
               /\ resp.body.total_count = Len(resp.emissions)
               /\ resp.emissions = Scenario
                     => /\ resp.body.total_emission_kgco2e = 35750000
                        /\ resp.body.total_emission_tons \in {35700, 35800}
                        /\ resp.body.total_count = 3

C8_Witness ==
    /\ BatchSucceeded
    /\ resp.emissions = Scenario
    /\ resp.body.total_emission_tons = 35700

\* C9: a failure of predict_single or predict_batch reaches the caller as a 500
\* whose body does not hold the text of the exception.
C9_ErrorBodyIsGeneric ==
    (resp # Idle /\ resp.handled /\ resp.endpoint \in {"/predict", "/predict/batch"})
        => /\ resp.status \in {HTTP_200_OK, HTTP_500_INTERNAL_SERVER_ERROR}
           /\ resp.status = HTTP_500_INTERNAL_SERVER_ERROR
                 => /\ resp.log # ""
                    /\ \A i \in 1..Len(resp.body.detail) : resp.body.detail[i] # resp.log

\* what the boundary is to reject
Unacceptable(raw) ==
    \/ raw.distance_km <= 0
    \/ strip(raw.origin_facility) = <<>>
    \/ strip(raw.vehicle_type) = <<>>
    \/ strip(raw.route_type) = <<>>

\* what the core is to receive
Acceptable(request) ==
    /\ request.distance_km > 0
    /\ \A text \in {request.origin_facility, request.vehicle_type, request.route_type} :
          text # <<>> /\ strip(text) = text

\* C10: a request with a non-positive distance, a text field empty after trimming,
\* or a batch of 0 or more than 100 descriptors is rejected as a client error with
\* no artifact invocation, and every descriptor the handlers receive has a
\* positive distance and three trimmed, non-empty text fields.
C10_BoundaryRejectsInvalid ==
    /\ (resp.endpoint = "/predict" /\ phase = "serving" /\ Unacceptable(resp.raw))
          => (resp.status = HTTP_422_UNPROCESSABLE_ENTITY /\ resp.calls = 0)
    /\ (/\ resp.endpoint = "/predict/batch"
        /\ phase = "serving"
        /\ \/ Len(resp.raw) < MIN_BATCH
           \/ Len(resp.raw) > MAX_BATCH
           \/ \E i \in 1..Len(resp.raw) : Unacceptable(resp.raw[i]))
          => (resp.status = HTTP_422_UNPROCESSABLE_ENTITY /\ resp.calls = 0)
    /\ (resp.endpoint = "/predict" /\ resp.handled) => Acceptable(resp.request)
    /\ (resp.endpoint = "/predict/batch" /\ resp.handled)
          => \A i \in 1..Len(resp.request) : Acceptable(resp.request[i])

====
